---- MODULE Spec2Model ----
(***************************************************************************)
(* The generate-video edge function: the create and status handlers and    *)
(* the background task that drives a video job.  The repository holds four *)
(* revisions of the function; a deployment runs one of them:               *)
(*   V1  src/supabase/functions/generate-video/index.ts lines 1-359        *)
(*       (simulated provider, seeded sample video)                         *)
(*   V2  src/supabase/functions/generate-video/index.ts lines 361-598      *)
(*       (simulated provider, fixed placeholder video)                     *)
(*   V3  src/supabase/functions/generate-video/index.ts lines 600-974      *)
(*       (Replicate provider, dispatch and polling loop)                   *)
(*   V4  src/unnamed/part_002                                              *)
(*       (simulated provider, cleanup on insert failure)                   *)
(* Every awaited store or provider call of the background task, and every  *)
(* store write of the create handler, is one step, so requests and tasks   *)
(* interleave between any two calls.                                       *)
(* Spec has a store whose updates succeed; SpecFaults adds a store whose   *)
(* calls can throw or return an error that the code ignores.               *)
(***************************************************************************)
EXTENDS Integers, Sequences, FiniteSets, Bags, TLC

\* ---------------------------------------------------------------- bounds
\* Rows the create handler may insert into media_assets.
MaxAssets == 1
\* Provider polls that answer without delay; the poll after them hangs for
\* HungMs before it answers.
MaxPolls == 1

\* Rows that generate-image and FileUploader may insert into media_assets.
MaxOthers == 1

\* Poll bodies of the VideoPlayground interval that can be in flight at once.
MaxBodies == 2

\* Requests the two-step PIN function can have in flight at once.
MaxCalls == 2
\* PIN comparisons the function answers for one profile.
MaxGuesses == 6
\* Times the clock of the PIN function advances by the lock time.
MaxClock == 1

\* ------------------------------------------------------- program constants
timeoutMs == 10 * 60 * 1000
PollSleepMs == 3000
ProgressTickMs == 3000
ProgressPerTick == 5
ProgressBase == 10
ProgressCap == 80
\* Latency of a provider call that hangs: one millisecond more than the
\* polling ceiling.
HungMs == timeoutMs + 1

Variants == {"V1", "V2", "V3", "V4"}

NULL == "<null>"
Undefined == "<undefined>"
\* The seed of a metadata object that holds no seed.
NoSeed == -1

Users == {"u1", "u2"}
\* The user signed in to the web client.
ClientUser == "u1"
NoUser == "<anonymous>"

\* generateRandomSeed / randomSeed: floor(random * 2147483647), sampled.
Seeds == {7}

\* Prompt texts are sequences of characters, so that trim is computed.
PromptTexts == { <<>>, <<" ">>, <<"a">>, <<" ", "a", " ">> }

\* The JSON value of body.prompt.
PromptValues ==
  {[type |-> "undefined", text |-> <<>>],
   [type |-> "null", text |-> <<>>],
   [type |-> "number", text |-> <<>>]}
  \cup {[type |-> "string", text |-> t] : t \in PromptTexts}

RECURSIVE TrimStart(_)
TrimStart(s) ==
  IF s = <<>> THEN s
  ELSE IF Head(s) = " " THEN TrimStart(Tail(s)) ELSE s

RECURSIVE TrimEnd(_)
TrimEnd(s) ==
  IF s = <<>> THEN s
  ELSE IF s[Len(s)] = " " THEN TrimEnd(SubSeq(s, 1, Len(s) - 1)) ELSE s

\* String.prototype.trim
Trim(s) == TrimEnd(TrimStart(s))

\* Outcome of the prompt check of the create handler:
\*   "ok", "invalid" (the 400 response) or "throws" (a TypeError that the
\*   handler's catch turns into a 500 response).
\* V1, V2: !prompt || typeof prompt !== "string" || prompt.trim().length === 0
\* V3: (body.prompt as string | undefined)?.trim() calls trim on any value
\*     that is not null or undefined; a number has no trim.
\* V4: the request log calls prompt?.substring(0, 50) before the check; a
\*     number has no substring.
PromptCheck(v, p) ==
  IF v \in {"V3", "V4"} /\ p.type = "number" THEN "throws"
  ELSE IF p.type \in {"undefined", "null", "number"} THEN "invalid"
  ELSE IF Len(Trim(p.text)) = 0 THEN "invalid"
  ELSE "ok"

\* The prompt stored in the asset row: V2 stores body.prompt as sent, the
\* other revisions store the trimmed prompt.
StoredPrompt(v, p) == IF v = "V2" THEN p.text ELSE Trim(p.text)

\* The asset's metadata at creation: V2 stores neither seed nor payload.
CreateMetadata(v, p, seed) ==
  IF v = "V2" THEN [seed |-> NoSeed, payload |-> <<>>]
  ELSE [seed |-> seed, payload |-> <<Trim(p.text), seed>>]

\* Whether the handler deletes the asset when the job insert fails.
CleansUpAsset(v) == v \in {"V3", "V4"}

\* The status field of the success response of create.
CreatedStatus(v) == IF v = "V3" THEN "queued" ELSE "pending"

VARIABLES
  variant,       \* the revision deployed
  media_assets,  \* table media_assets: id -> row
  video_jobs,    \* table video_jobs: id -> row
  nextId,        \* the id the next inserted asset gets
  task,          \* background task of each job: position and locals
  creates,       \* create handlers between their media_assets insert and
                 \* their response, by the id of the asset inserted
  http,          \* the request the last step handled and its response;
                 \* Idle when the last step handled none
  client,        \* the VideoPlayground component: its job list, the jobs
                 \* its interval polls, the poll bodies in flight and the
                 \* toasts it has shown
  pin            \* the two-step PIN function: the caller's profile row, the
                 \* clock and the requests in flight

vars == <<variant, media_assets, video_jobs, nextId, task, creates, http, client, pin>>

\* The component before any job is generated: useState<VideoJob[]>([]).
NoClient ==
  [videoJobs |-> <<>>, stale |-> FALSE, closure |-> <<>>, fired |-> FALSE,
   bodies |-> <<>>, toasts |-> <<>>]

\* ------------------------------------------ two-step PIN (data, part_000)
\* Lock after 5 failed attempts for 15 minutes.
LockAttempts == 5
LockMs == 15 * 60 * 1000

Digits == {"0", "1", "2", "3", "4", "5", "6", "7", "8", "9"}

\* A PIN is the sequence of its characters; <<>> is a request without pin.
Pin1 == <<"1", "1", "1", "1", "1", "1">>
Pin2 == <<"2", "2", "2", "2", "2", "2">>
ShortPin == <<"1", "2">>
Pins == {Pin1, Pin2, ShortPin}

\* pin && /^\d{6}$/.test(pin)
IsSixDigits(x) == Len(x) = 6 /\ \A i \in 1 .. Len(x) : x[i] \in Digits

\* hashPin: SHA-256 of the PIN in hex, kept symbolic; different PINs have
\* different hashes.  NoHash is a two_step_pin_hash of null.
hashPin(x) == <<"sha256">> \o x
NoHash == <<>>

\* pin_locked_until is <<>> for null and <<t>> for the time t.
NoLock == <<>>

\* The caller's row of profiles after two-step verification was enabled
\* with Pin1.
EnabledProfile ==
  [two_step_enabled |-> TRUE, two_step_pin_hash |-> hashPin(Pin1),
   pin_attempts |-> 0, pin_locked_until |-> NoLock]

\* The PIN function before any request.  failed and others count the PIN
\* comparisons answered "wrong" since the counters of the profile were
\* last reset: by verify, and by change and disable.
NoPin ==
  [profile |-> EnabledProfile, now |-> 0, calls |-> EmptyBag, failed |-> 0, others |-> 0]

NoView ==
  [id |-> 0, status |-> NULL, progress |-> 0, errorMessage |-> NULL,
   videoUrl |-> NULL, prompt |-> <<>>]

Idle ==
  [action |-> "none", user |-> NoUser, prompt |-> [type |-> "undefined", text |-> <<>>],
   jobId |-> 0, code |-> 0, error |-> NULL, job |-> NoView]

\* An asset row stored under a fixed user instead of the caller.
NewAssetOfFirstUser(u, v, p, seed) ==
  [user_id |-> "u1", type |-> "video", status |-> "pending", file_url |-> NULL,
   prompt |-> StoredPrompt(v, p), metadata |-> CreateMetadata(v, p, seed)]

NewAsset(u, v, p, seed) ==
  [user_id |-> u, type |-> "video", status |-> "pending", file_url |-> NULL,
   prompt |-> StoredPrompt(v, p), metadata |-> CreateMetadata(v, p, seed)]

NewJob(assetId) ==
  [media_asset_id |-> assetId, status |-> "pending", progress |-> 0,
   error_message |-> NULL, started_at |-> NULL, completed_at |-> NULL]

NoPoll ==
  [status |-> "none", output |-> [isArray |-> FALSE, items |-> <<>>], error |-> NULL]
PollThrew == [NoPoll EXCEPT !.status = "threw"]
NoError == [isError |-> FALSE, message |-> NULL]

\* A create handler that awaits the dispatch before it responds.
NewTaskAfterDispatch(seed) ==
  [pc |-> "store_prediction", seed |-> seed, step |-> 1, elapsed |-> 0, polls |-> 0,
   dispatch |-> "ok", p |-> NoPoll, err |-> NoError, escaped |-> FALSE,
   failWrite |-> FALSE]

NewTask(seed) ==
  [pc |-> "set_processing", seed |-> seed, step |-> 1, elapsed |-> 0, polls |-> 0,
   dispatch |-> "none", p |-> NoPoll, err |-> NoError, escaped |-> FALSE,
   failWrite |-> FALSE]

Put(f, k, v) == [x \in DOMAIN f \cup {k} |-> IF x = k THEN v ELSE f[x]]

Without(f, k) == [x \in DOMAIN f \ {k} |-> f[x]]

Init ==
  /\ variant \in Variants
  /\ media_assets = <<>>
  /\ video_jobs = <<>>
  /\ nextId = 1
  /\ task = <<>>
  /\ creates = <<>>
  /\ http = Idle
  /\ client = NoClient
  /\ pin = NoPin

\* A step that sends a response records it in http; the step after it that
\* sends one comes when the response has been delivered.
Respond(action, u, p, jobId, code, error, view) ==
  /\ http = Idle
  /\ http' = [action |-> action, user |-> u, prompt |-> p, jobId |-> jobId,
              code |-> code, error |-> error, job |-> view]

\* The response reaches the caller.
Deliver ==
  /\ http # Idle
  /\ http' = Idle
  /\ UNCHANGED <<client, pin, creates, variant, media_assets, video_jobs, nextId, task>>

\* Why a request has no valid session: it has no Authorization header, or
\* auth.getUser answers an error or no user.
AuthFailures == {"no_header", "invalid_session"}

\* The error text of the 401 response.
AuthText(failure) ==
  IF failure = "no_header" THEN "Authentication required" ELSE "Invalid or expired session"

\* A request without a valid session: 401 before the body is read.
Unauthenticated ==
  /\ \E action \in {"create", "status"}, failure \in AuthFailures :
       Respond(action, NoUser, Idle.prompt, 0, 401, AuthText(failure), NoView)
  /\ UNCHANGED <<client, pin, creates, variant, media_assets, video_jobs, nextId, task>>

\* The error text of the handler's catch block for a TypeError.
UnhandledText(v) ==
  IF v = "V3" THEN "Unhandled server error"
  ELSE IF v = "V4" THEN "prompt?.substring is not a function"
  ELSE "An error occurred processing your request"

\* The errors an insert of the store can return.
StoreErrors == {[message |-> "store error"], [message |-> "permission denied"]}
NoStoreError == [message |-> NULL]

\* "Failed to create video job: " + error.message
FailedToCreateWith(e) ==
  CASE e.message = "store error" -> "Failed to create video job: store error"
    [] e.message = "permission denied" -> "Failed to create video job: permission denied"

\* The error text when the media_assets insert returns the error e.
AssetInsertText(v, e) ==
  IF v = "V3" THEN "Failed to create media asset"
  ELSE IF v = "V4" THEN FailedToCreateWith(e)
  ELSE "Failed to create video job"

\* The error text when the video_jobs insert returns the error e.
JobInsertText(v, e) ==
  IF v = "V4" THEN FailedToCreateWith(e) ELSE "Failed to create video job"

\* create with a prompt the check rejects, or on which the check throws.
CreateRejected(u, p) ==
  /\ PromptCheck(variant, p) # "ok"
  /\ IF PromptCheck(variant, p) = "invalid"
       THEN Respond("create", u, p, 0, 400, "Prompt is required", NoView)
       ELSE Respond("create", u, p, 0, 500, UnhandledText(variant), NoView)
  /\ UNCHANGED <<client, pin, creates, variant, media_assets, video_jobs, nextId, task>>

\* create whose media_assets insert returns an error: 500, nothing stored.
CreateAssetInsertFails(u, p) ==
  /\ PromptCheck(variant, p) = "ok"
  /\ \E e \in StoreErrors :
       Respond("create", u, p, 0, 500, AssetInsertText(variant, e), NoView)
  /\ UNCHANGED <<client, pin, creates, variant, media_assets, video_jobs, nextId, task>>

\* A create handler whose media_assets insert has returned the row; it
\* awaits the video_jobs insert and has not responded.
NewCreate(u, p, seed) ==
  [user |-> u, prompt |-> p, seed |-> seed, pc |-> "job_insert", error |-> NoStoreError]

\* create up to its media_assets insert, which stores the asset.
CreateAssetInserted(u, p, seed) ==
  /\ PromptCheck(variant, p) = "ok"
  /\ nextId <= MaxAssets
  /\ media_assets' = Put(media_assets, nextId, NewAsset(u, variant, p, seed))
  /\ creates' = Put(creates, nextId, NewCreate(u, p, seed))
  /\ nextId' = nextId + 1
  /\ http' = Idle
  /\ UNCHANGED <<client, pin, variant, video_jobs, task>>

AtCreate(a, pc) == a \in DOMAIN creates /\ creates[a].pc = pc

\* The video_jobs insert of the handler that inserted asset a returns an
\* error: V1 and V2 respond 500 and leave the asset, V3 and V4 go on to
\* delete the asset before they respond.
CreateJobInsertFails(a) ==
  /\ AtCreate(a, "job_insert")
  /\ \E e \in StoreErrors :
       IF CleansUpAsset(variant)
         THEN /\ creates' = [creates EXCEPT ![a].pc = "cleanup", ![a].error = e]
              /\ http' = Idle
         ELSE /\ creates' = Without(creates, a)
              /\ Respond("create", creates[a].user, creates[a].prompt, 0, 500,
                         JobInsertText(variant, e), NoView)
  /\ UNCHANGED <<client, pin, variant, media_assets, video_jobs, nextId, task>>

\* The response of a handler after its cleanup delete has returned.
CleanupResponse(a) ==
  Respond("create", creates[a].user, creates[a].prompt, 0, 500,
          JobInsertText(variant, creates[a].error), NoView)

\* V3, V4: the cleanup delete removes the asset, then the 500 is sent.
CreateCleanup(a) ==
  /\ AtCreate(a, "cleanup")
  /\ media_assets' = Without(media_assets, a)
  /\ creates' = Without(creates, a)
  /\ CleanupResponse(a)
  /\ UNCHANGED <<client, pin, variant, video_jobs, nextId, task>>

\* V3, V4: the cleanup delete returns an error, which the handler does not
\* read: the asset stays and the same 500 is sent.
CreateCleanupFails(a) ==
  /\ AtCreate(a, "cleanup")
  /\ creates' = Without(creates, a)
  /\ CleanupResponse(a)
  /\ UNCHANGED <<client, pin, variant, media_assets, video_jobs, nextId, task>>

\* The video_jobs insert of the handler that inserted asset a stores the
\* job; the handler hands the background task to EdgeRuntime.waitUntil and
\* responds at once.
CreateOk(a) ==
  /\ AtCreate(a, "job_insert")
  /\ video_jobs' = Put(video_jobs, a, NewJob(a))
  /\ task' = Put(task, a, NewTask(IF variant = "V2" THEN NoSeed ELSE creates[a].seed))
  /\ creates' = Without(creates, a)
  /\ Respond("create", creates[a].user, creates[a].prompt, a, 200, NULL,
             [NoView EXCEPT !.id = a, !.status = CreatedStatus(variant)])
  /\ UNCHANGED <<client, pin, variant, media_assets, nextId>>

\* ------------------------------------------- other writers of media_assets
\* The generate-image function and the FileUploader component insert rows
\* of their own into media_assets, completed and without a job.
OtherIds == MaxAssets + 1 .. MaxAssets + MaxOthers

OtherRows == DOMAIN media_assets \cap OtherIds

NoMetadata == [seed |-> NoSeed, payload |-> <<>>]

\* The row generate-image stores for the prompt "a".
ImageAsset(u) ==
  [user_id |-> u, type |-> "image", status |-> "completed", file_url |-> "image.png",
   prompt |-> <<"a">>, metadata |-> NoMetadata]

\* The row FileUploader stores; it has no prompt.
UploadAsset(u) ==
  [user_id |-> u, type |-> "upload", status |-> "completed", file_url |-> "upload.bin",
   prompt |-> <<>>, metadata |-> NoMetadata]

\* The id the next of these rows gets.
NextOtherId == MaxAssets + Cardinality(OtherRows) + 1

\* generate-image, called by user u, stores its row.
ImageGenerated(u) ==
  /\ Cardinality(OtherRows) < MaxOthers
  /\ media_assets' = Put(media_assets, NextOtherId, ImageAsset(u))
  /\ http' = Idle
  /\ UNCHANGED <<client, pin, creates, variant, video_jobs, nextId, task>>

\* FileUploader, a component in the session of user u, stores its row.
FileUploaded(u) ==
  /\ Cardinality(OtherRows) < MaxOthers
  /\ media_assets' = Put(media_assets, NextOtherId, UploadAsset(u))
  /\ http' = Idle
  /\ UNCHANGED <<client, pin, creates, variant, video_jobs, nextId, task>>

\* Row-level security of video_jobs (SELECT and UPDATE): a job is visible
\* to the owner of its parent asset only.
Visible(u, j) ==
  /\ j \in DOMAIN video_jobs
  /\ video_jobs[j].media_asset_id \in DOMAIN media_assets
  /\ media_assets[video_jobs[j].media_asset_id].user_id = u

\* The job fields the status handler returns; V2 returns no prompt.
JobView(v, j) ==
  LET job == video_jobs[j]
      asset == media_assets[job.media_asset_id]
  IN [id |-> j, status |-> job.status, progress |-> job.progress,
      errorMessage |-> job.error_message, videoUrl |-> asset.file_url,
      prompt |-> IF v = "V2" THEN <<>> ELSE asset.prompt]

\* Whether the handler itself compares the asset's owner with the caller.
ChecksOwner(v) == v \in {"V1", "V4"}

\* The error text of a status request without jobId.
JobIdRequiredText(v) ==
  IF v = "V3" THEN "jobId required for status" ELSE "jobId required for status check"

\* The error text when the select of the status handler returns an error;
\* V1 does not tell it from a job that is not found.
SelectFailedText(v) ==
  IF v = "V3" THEN "Failed to load job"
  ELSE IF v = "V4" THEN "Failed to fetch job status"
  ELSE "Job not found"

\* The response of the status handler: <<code, error, job fields>>;
\* selectError says whether the select of the job returns an error.
\* V2 reads the request body a second time, which throws; its catch
\* answers 500.  jobId 0 stands for a request without jobId.
StatusResponse(v, u, jobId, selectError) ==
  IF v = "V2" THEN <<500, UnhandledText(v), NoView>>
  ELSE IF jobId = 0 THEN <<400, JobIdRequiredText(v), NoView>>
  ELSE IF selectError
    THEN <<IF v = "V1" THEN 404 ELSE 500, SelectFailedText(v), NoView>>
  ELSE IF ~Visible(u, jobId) THEN <<404, "Job not found", NoView>>
  ELSE IF ChecksOwner(v) /\ media_assets[video_jobs[jobId].media_asset_id].user_id # u
    THEN <<403, "Unauthorized", NoView>>
  ELSE <<200, NULL, JobView(v, jobId)>>

\* A status handler with a read-through refresh that stores the provider's
\* running state whatever the stored status is.
StatusWritesStaleRefresh(v, jobs, jobId) ==
  IF jobId \in DOMAIN jobs THEN [jobs EXCEPT ![jobId].status = "processing"] ELSE jobs

\* The table video_jobs after the status handler: the handler selects the
\* job and its asset and updates nothing.
StatusWrites(v, jobs, jobId) == jobs

\* A status request, with the outcome of its select.
StatusRequest(u, jobId, selectError) ==
  /\ LET r == StatusResponse(variant, u, jobId, selectError)
     IN Respond("status", u, Idle.prompt, jobId, r[1], r[2], r[3])
  /\ video_jobs' = StatusWrites(variant, video_jobs, jobId)
  /\ UNCHANGED <<client, pin, creates, variant, media_assets, nextId, task>>

Status(u, jobId) == StatusRequest(u, jobId, FALSE)

\* A status request whose select returns an error; the request has a jobId
\* and the revision reaches its select.
StatusSelectFails(u, jobId) ==
  /\ variant # "V2"
  /\ jobId # 0
  /\ StatusRequest(u, jobId, TRUE)

\* ------------------------------------------------------ background task
Min(a, b) == IF a < b THEN a ELSE b

\* progress of the first write of the task
InitialProgress(v) == IF v = "V3" THEN 5 ELSE 10

\* progressSteps of the simulated revisions
progressSteps == <<20, 40, 60, 80>>

\* The estimate without its base of 10.
RoughProgressNoBase(elapsed) ==
  Min(ProgressCap, (elapsed \div ProgressTickMs) * ProgressPerTick)

\* 10 + Math.min(80, Math.floor((Date.now() - started) / 3000) * 5)
RoughProgress(elapsed) ==
  ProgressBase + Min(ProgressCap, (elapsed \div ProgressTickMs) * ProgressPerTick)

sampleVideos ==
  <<"ForBiggerBlazes.mp4", "ForBiggerEscapes.mp4", "ForBiggerFun.mp4",
    "ForBiggerJoyrides.mp4", "ForBiggerMeltdowns.mp4">>

\* The video of a simulated job: sampleVideos[seed % length], V2 a fixed one.
SimulatedVideo(v, seed) ==
  IF v = "V2" THEN sampleVideos[1] ELSE sampleVideos[(seed % Len(sampleVideos)) + 1]

\* The output of a prediction: a list of its items, or a scalar held as
\* the one item; NoOutput is an answer without output (undefined) and
\* Scalar(NULL) an output of null.
Scalar(u) == [isArray |-> FALSE, items |-> <<u>>]
NoOutput == [isArray |-> FALSE, items |-> <<>>]

\* Array.isArray(p.output) ? p.output[0] : p.output
VideoUrlOf(output) ==
  IF Len(output.items) > 0 THEN output.items[1] ELSE Undefined

\* p.error || `Provider ${p.status}`
ProviderMessage(p) ==
  IF p.error # NULL THEN p.error
  ELSE IF p.status = "failed" THEN "Provider failed" ELSE "Provider canceled"

\* e instanceof Error ? e.message : fallback
CatchMessage(e, fallback) == IF e.isError THEN e.message ELSE fallback

CatchFallback(v) == IF v = "V4" THEN "Processing failed" ELSE "Unknown error"

TimeoutMessage == "Provider timed out"

\* What replicate.predictions.create and predictions.get can throw.
ProviderExceptions ==
  {[isError |-> TRUE, message |-> "fetch failed"], [isError |-> FALSE, message |-> NULL]}

\* What a store call can throw.
StoreException == [isError |-> TRUE, message |-> "store unavailable"]

\* What replicate.predictions.get can answer.
PollResults ==
  {[status |-> "processing", output |-> NoOutput, error |-> NULL]}
  \cup {[status |-> "succeeded", output |-> o, error |-> NULL] :
          o \in {Scalar("X"), [isArray |-> TRUE, items |-> <<"Y", "X">>],
                 [isArray |-> TRUE, items |-> <<>>], NoOutput, Scalar(NULL)}}
  \cup {[status |-> "failed", output |-> NoOutput, error |-> e] :
          e \in {"NSFW", "Provider timed out"}}
  \cup {[status |-> "canceled", output |-> NoOutput, error |-> NULL]}

\* The rows the task's updates write.
JobProcessing(v, job) ==
  [job EXCEPT !.status = "processing", !.progress = InitialProgress(v), !.started_at = "ts"]

JobProgress(job, n) == [job EXCEPT !.progress = n]

JobCompleted(job) ==
  [job EXCEPT !.status = "completed", !.progress = 100, !.completed_at = "ts"]

\* The failure update without its status.
JobFailedKeepsStatus(job, msg) == [job EXCEPT !.error_message = msg]

JobFailed(job, msg) == [job EXCEPT !.status = "failed", !.error_message = msg]

AssetStatus(asset, s) == [asset EXCEPT !.status = s]

\* V3: the metadata update after dispatch replaces the whole metadata by
\* the request payload and the provider ids.
AssetPrediction(asset, t) ==
  [asset EXCEPT !.metadata = [seed |-> NoSeed, payload |-> <<asset.prompt, t.seed>>]]

\* The completion update of the asset.  A file_url of undefined is dropped
\* from the JSON body of the update.  The simulated revisions replace the
\* metadata as well.
AssetCompleted(v, asset, t) ==
  IF v = "V3"
    THEN LET url == VideoUrlOf(t.p.output)
         IN [asset EXCEPT !.status = "completed",
                          !.file_url = IF url = Undefined THEN @ ELSE url]
    ELSE [asset EXCEPT !.status = "completed",
                       !.file_url = SimulatedVideo(v, t.seed),
                       !.metadata = [seed |-> t.seed, payload |-> <<>>]]

\* while (Date.now() - started < timeoutMs)
LoopTarget(elapsed) == IF elapsed < timeoutMs THEN "poll" ELSE "timeout_job"

\* Positions of the task at which it awaits a store call.
StorePcs ==
  {"set_processing", "asset_processing", "progress", "job_completed",
   "asset_completed", "dispatch_failed_job", "dispatch_failed_asset",
   "store_prediction", "provider_failed_job", "provider_failed_asset",
   "rough_progress", "timeout_job", "timeout_asset", "catch_job", "catch_asset"}

CatchPcs == {"catch_job", "catch_asset"}

\* The task has ended.  Its loop counters are cleared; the last answer of
\* the provider and the exception caught stay on record.
Finished(t) == [t EXCEPT !.pc = "done", !.step = 1, !.elapsed = 0, !.polls = 0]

\* Positions at which the task awaits an update that sets the job's status
\* to failed.
FailPcs == {"dispatch_failed_job", "provider_failed_job", "timeout_job", "catch_job"}

\* The task has issued the store call it awaits at t.pc; failWrite records
\* that an update to failed has been issued, whatever its outcome.
Issued(t) == [t EXCEPT !.failWrite = @ \/ t.pc \in FailPcs]

\* The task after the store call it awaits at t.pc has returned.
Continue(v, t) ==
  CASE t.pc = "set_processing" -> [Issued(t) EXCEPT !.pc = "asset_processing"]
    [] t.pc = "asset_processing" ->
         [Issued(t) EXCEPT !.pc = IF v = "V3" THEN "dispatch" ELSE "progress"]
    [] t.pc = "progress" ->
         [Issued(t) EXCEPT !.step = @ + 1,
                   !.pc = IF t.step = Len(progressSteps) THEN "job_completed" ELSE "progress"]
    [] t.pc = "job_completed" -> [Issued(t) EXCEPT !.pc = "asset_completed"]
    [] t.pc = "dispatch_failed_job" -> [Issued(t) EXCEPT !.pc = "dispatch_failed_asset"]
    [] t.pc = "store_prediction" -> [Issued(t) EXCEPT !.elapsed = 0, !.pc = LoopTarget(0)]
    [] t.pc = "provider_failed_job" -> [Issued(t) EXCEPT !.pc = "provider_failed_asset"]
    [] t.pc = "rough_progress" ->
         [Issued(t) EXCEPT !.elapsed = @ + PollSleepMs, !.pc = LoopTarget(t.elapsed + PollSleepMs)]
    [] t.pc = "timeout_job" -> [Issued(t) EXCEPT !.pc = "timeout_asset"]
    [] t.pc = "catch_job" -> [Issued(t) EXCEPT !.pc = "catch_asset"]
    [] OTHER -> Finished(Issued(t))

\* The task after an exception is thrown at t.pc.  Inside the try block the
\* catch block takes it.  Inside the catch block V3 and V4 swallow it in an
\* inner try, V1 and V2 let it escape the task.
Thrown(v, t, e) ==
  IF t.pc \in CatchPcs
    THEN [Finished(Issued(t)) EXCEPT !.escaped = v \in {"V1", "V2"}]
    ELSE [Issued(t) EXCEPT !.pc = "catch_job", !.err = e]

At(j, pc) == j \in DOMAIN task /\ task[j].pc = pc

AssetOf(j) == video_jobs[j].media_asset_id

\* One store update of the task: the job row, then the next position.
UpdateJob(j, row) ==
  /\ video_jobs' = [video_jobs EXCEPT ![j] = row]
  /\ task' = [task EXCEPT ![j] = Continue(variant, task[j])]
  /\ http' = Idle
  /\ UNCHANGED <<client, pin, creates, variant, media_assets, nextId>>

UpdateAsset(j, row) ==
  /\ media_assets' = [media_assets EXCEPT ![AssetOf(j)] = row]
  /\ task' = [task EXCEPT ![j] = Continue(variant, task[j])]
  /\ http' = Idle
  /\ UNCHANGED <<client, pin, creates, variant, video_jobs, nextId>>

SetProcessing(j) ==
  /\ At(j, "set_processing")
  /\ UpdateJob(j, JobProcessing(variant, video_jobs[j]))

MarkAssetProcessing(j) ==
  /\ At(j, "asset_processing")
  /\ UpdateAsset(j, AssetStatus(media_assets[AssetOf(j)], "processing"))

\* Simulated revisions: sleep, then write the next progress step.
SimulateProgress(j) ==
  /\ At(j, "progress")
  /\ UpdateJob(j, JobProgress(video_jobs[j], progressSteps[task[j].step]))

MarkJobCompleted(j) ==
  /\ At(j, "job_completed")
  /\ UpdateJob(j, JobCompleted(video_jobs[j]))

MarkAssetCompleted(j) ==
  /\ At(j, "asset_completed")
  /\ UpdateAsset(j, AssetCompleted(variant, media_assets[AssetOf(j)], task[j]))

\* A dispatch that is tried again when it throws.
DispatchRetry(j) ==
  /\ At(j, "dispatch")
  /\ \/ task' = [task EXCEPT ![j].pc = "store_prediction", ![j].dispatch = "ok"]
     \/ \E e \in ProviderExceptions :
          task' = [task EXCEPT ![j].err = e, ![j].dispatch = "threw"]
  /\ http' = Idle
  /\ UNCHANGED <<client, pin, creates, variant, media_assets, video_jobs, nextId>>

\* V3: replicate.predictions.create answers or throws.
Dispatch(j) ==
  /\ At(j, "dispatch")
  /\ \/ task' = [task EXCEPT ![j].pc = "store_prediction", ![j].dispatch = "ok"]
     \/ \E e \in ProviderExceptions :
          task' = [task EXCEPT ![j].pc = "dispatch_failed_job", ![j].err = e,
                               ![j].dispatch = "threw"]
  /\ http' = Idle
  /\ UNCHANGED <<client, pin, creates, variant, media_assets, video_jobs, nextId>>

DispatchFailedJob(j) ==
  /\ At(j, "dispatch_failed_job")
  /\ UpdateJob(j, JobFailed(video_jobs[j], CatchMessage(task[j].err, "Provider error")))

DispatchFailedAsset(j) ==
  /\ At(j, "dispatch_failed_asset")
  /\ UpdateAsset(j, AssetStatus(media_assets[AssetOf(j)], "failed"))

StorePrediction(j) ==
  /\ At(j, "store_prediction")
  /\ UpdateAsset(j, AssetPrediction(media_assets[AssetOf(j)], task[j]))

\* Where the task goes with the answer p of a poll.
AfterPoll(p) ==
  IF p.status = "succeeded" THEN "job_completed"
  ELSE IF p.status \in {"failed", "canceled"} THEN "provider_failed_job"
  ELSE "rough_progress"

\* The task leaves the polling loop: the loop's clock is read no more.
LeaveLoop(t) == [t EXCEPT !.elapsed = 0, !.polls = 0]

\* The task with the answer p of a poll.
Polled(t, p) ==
  IF AfterPoll(p) = "rough_progress"
    THEN [t EXCEPT !.p = p, !.pc = "rough_progress"]
    ELSE [LeaveLoop(t) EXCEPT !.p = p, !.pc = AfterPoll(p)]

\* V3: replicate.predictions.get answers after lat milliseconds, or throws.
Poll(j) ==
  /\ At(j, "poll")
  /\ \E lat \in {0, HungMs} :
       /\ lat = 0 => task[j].polls < MaxPolls
       /\ LET t == [task[j] EXCEPT !.elapsed = @ + lat,
                                   !.polls = IF lat = 0 THEN @ + 1 ELSE @]
          IN \/ \E p \in PollResults :
                  task' = [task EXCEPT ![j] = Polled(t, p)]
             \/ \E e \in ProviderExceptions :
                  task' = [task EXCEPT ![j] =
                             Thrown(variant, [LeaveLoop(t) EXCEPT !.p = PollThrew], e)]
  /\ http' = Idle
  /\ UNCHANGED <<client, pin, creates, variant, media_assets, video_jobs, nextId>>

ProviderFailedJob(j) ==
  /\ At(j, "provider_failed_job")
  /\ UpdateJob(j, JobFailed(video_jobs[j], ProviderMessage(task[j].p)))

ProviderFailedAsset(j) ==
  /\ At(j, "provider_failed_asset")
  /\ UpdateAsset(j, AssetStatus(media_assets[AssetOf(j)], "failed"))

\* V3: the progress estimate, then the sleep between two polls.
UpdateRoughProgress(j) ==
  /\ At(j, "rough_progress")
  /\ UpdateJob(j, JobProgress(video_jobs[j], RoughProgress(task[j].elapsed)))

TimeoutJob(j) ==
  /\ At(j, "timeout_job")
  /\ UpdateJob(j, JobFailed(video_jobs[j], TimeoutMessage))

TimeoutAsset(j) ==
  /\ At(j, "timeout_asset")
  /\ UpdateAsset(j, AssetStatus(media_assets[AssetOf(j)], "failed"))

\* The catch block of the task.
CatchJob(j) ==
  /\ At(j, "catch_job")
  /\ UpdateJob(j, JobFailed(video_jobs[j], CatchMessage(task[j].err, CatchFallback(variant))))

CatchAsset(j) ==
  /\ At(j, "catch_asset")
  /\ UpdateAsset(j, AssetStatus(media_assets[AssetOf(j)], "failed"))

\* ------------------------------------------------------------ store faults
\* A store call of the task throws.
StoreCallThrows(j) ==
  /\ j \in DOMAIN task
  /\ task[j].pc \in StorePcs
  /\ task' = [task EXCEPT ![j] = Thrown(variant, task[j], StoreException)]
  /\ http' = Idle
  /\ UNCHANGED <<client, pin, creates, variant, media_assets, video_jobs, nextId>>

\* A store update of the task returns an error: no row changes, and the
\* task goes on (no revision reads the error of an update; V4 logs one).
StoreUpdateFails(j) ==
  /\ j \in DOMAIN task
  /\ task[j].pc \in StorePcs
  /\ task' = [task EXCEPT ![j] = Continue(variant, task[j])]
  /\ http' = Idle
  /\ UNCHANGED <<client, pin, creates, variant, media_assets, video_jobs, nextId>>

Request ==
  \/ Unauthenticated
  \/ \E u \in Users, p \in PromptValues : CreateRejected(u, p)
  \/ \E u \in Users, p \in PromptValues : CreateAssetInsertFails(u, p)
  \/ \E u \in Users, p \in PromptValues, seed \in Seeds : CreateAssetInserted(u, p, seed)
  \/ \E a \in 1 .. MaxAssets : CreateJobInsertFails(a)
  \/ \E a \in 1 .. MaxAssets : CreateCleanup(a)
  \/ \E a \in 1 .. MaxAssets : CreateOk(a)
  \/ \E u \in Users, jobId \in 0 .. MaxAssets + 1 : Status(u, jobId)
  \/ Deliver

OtherWriters ==
  \/ \E u \in Users : ImageGenerated(u)
  \/ FileUploaded(ClientUser)

TaskStep(j) ==
  \/ SetProcessing(j)
  \/ MarkAssetProcessing(j)
  \/ SimulateProgress(j)
  \/ MarkJobCompleted(j)
  \/ MarkAssetCompleted(j)
  \/ Dispatch(j)
  \/ DispatchFailedJob(j)
  \/ DispatchFailedAsset(j)
  \/ StorePrediction(j)
  \/ Poll(j)
  \/ ProviderFailedJob(j)
  \/ ProviderFailedAsset(j)
  \/ UpdateRoughProgress(j)
  \/ TimeoutJob(j)
  \/ TimeoutAsset(j)
  \/ CatchJob(j)
  \/ CatchAsset(j)

Next == Request \/ OtherWriters \/ \E j \in 1 .. MaxAssets : TaskStep(j)

Spec == Init /\ [][Next]_vars

NextFaults ==
  \/ Next
  \/ \E j \in 1 .. MaxAssets : StoreCallThrows(j)
  \/ \E j \in 1 .. MaxAssets : StoreUpdateFails(j)
  \/ \E a \in 1 .. MaxAssets : CreateCleanupFails(a)
  \/ \E u \in Users, jobId \in 1 .. MaxAssets + 1 : StatusSelectFails(u, jobId)

SpecFaults == Init /\ [][NextFaults]_vars

\* ------------------------------------------- VideoPlayground (the poller)
\* The component of src/src/components/playground/VideoPlayground.tsx, run
\* in the session of ClientUser.  handleGenerate posts a create request and
\* puts the new job in front of videoJobs.  After each change of videoJobs
\* the effect is run again; a run that finds a pending or processing job
\* sets an interval that starts a poll body every 3000 ms, until the next
\* run clears it.  A body goes through the pendingJobs of the run that set
\* its interval: for each it selects the job row with its asset, waits for
\* the answer, stores it in videoJobs and shows a toast when the answer is
\* terminal.  Nothing stops a body that is running when the next tick
\* comes or the effect is run again.

\* The prompt handleGenerate sends: prompt.trim(), and none when it is empty.
ClientPrompts ==
  {[type |-> "string", text |-> Trim(t)] : t \in {x \in PromptTexts : Len(Trim(x)) > 0}}

\* newJob of handleGenerate.
LocalJob(j) ==
  [id |-> j, status |-> "pending", progress |-> 0, videoUrl |-> Undefined,
   errorMessage |-> Undefined]

IsPending(job) == job.status = "pending" \/ job.status = "processing"

\* videoJobs.filter(pending or processing), as job ids.
RECURSIVE Ids(_)
Ids(jobs) == IF jobs = <<>> THEN <<>> ELSE <<Head(jobs).id>> \o Ids(Tail(jobs))

pendingJobs(jobs) == Ids(SelectSeq(jobs, IsPending))

\* A poll body waiting for the answer of its select.
NoData == [status |-> "<none>", progress |-> 0, file_url |-> NULL, error_message |-> NULL]

\* select('*, media_assets(*)').eq('id', job.id).single(): the row read.
RowOf(j) ==
  [status |-> video_jobs[j].status, progress |-> video_jobs[j].progress,
   file_url |-> media_assets[AssetOf(j)].file_url,
   error_message |-> video_jobs[j].error_message]

\* The local job after a poll: { ...j, status, progress: data.progress || 0,
\* videoUrl: data.media_assets?.file_url, errorMessage }.
LocalPolled(job, data) ==
  [job EXCEPT !.status = data.status,
              !.progress = IF data.progress = 0 THEN 0 ELSE data.progress,
              !.videoUrl = data.file_url,
              !.errorMessage = data.error_message]

\* prev.map((j) => j.id === job.id ? {...} : j)
MapPolled(jobs, j, data) ==
  [i \in DOMAIN jobs |-> IF jobs[i].id = j THEN LocalPolled(jobs[i], data) ELSE jobs[i]]

\* The body after it is done with the job at the head of its queue.
NextJob(bodies, b) ==
  IF Len(bodies[b].queue) = 1 THEN Without(bodies, b)
  ELSE [bodies EXCEPT ![b] = [queue |-> Tail(@.queue), data |-> NoData]]

ToastCount(j) == IF j \in DOMAIN client.toasts THEN client.toasts[j] ELSE 0

ServerUnchanged == UNCHANGED <<variant, media_assets, video_jobs, nextId, task, creates, pin>>

\* handleGenerate after a successful create: the job is put in front.
JobCreated(j) ==
  /\ j \in DOMAIN video_jobs
  /\ media_assets[AssetOf(j)].user_id = ClientUser
  /\ \A i \in DOMAIN client.videoJobs : client.videoJobs[i].id # j
  /\ client' = [client EXCEPT !.videoJobs = <<LocalJob(j)>> \o @, !.stale = TRUE]
  /\ http' = Idle
  /\ ServerUnchanged

\* Every setVideoJobs stores a new array, and the effect depends on
\* videoJobs: React runs it again after it has rendered the change, whether
\* the pending jobs are the same or not.  stale says that videoJobs has
\* been set and the effect has not been run again; the interval that is
\* running, if any, is then the one of the run before.  The run clears that
\* interval, takes pendingJobs from videoJobs and, when there are any,
\* starts an interval on them.  closure is the pendingJobs of the interval
\* that is running, <<>> when none is.
EffectRuns ==
  /\ client.stale
  /\ client' = [client EXCEPT !.closure = pendingJobs(client.videoJobs),
                              !.stale = FALSE, !.fired = FALSE]
  /\ http' = Idle
  /\ ServerUnchanged

\* The interval fires: a body starts on the pendingJobs of the closure and
\* sends the select for the first of them.  An interval that waits for its
\* cleanup fires once at most: the effect is run again within the 3000 ms
\* to its next tick.
Tick(b) ==
  /\ b \notin DOMAIN client.bodies
  /\ client.closure # <<>>
  /\ ~client.fired
  /\ client' = [client EXCEPT !.bodies = Put(@, b, [queue |-> client.closure, data |-> NoData]),
                              !.fired = client.stale]
  /\ http' = Idle
  /\ ServerUnchanged

\* The store answers the select of body b with the row as it is now.
SelectAnswers(b) ==
  /\ b \in DOMAIN client.bodies
  /\ client.bodies[b].data = NoData
  /\ Visible(ClientUser, Head(client.bodies[b].queue))
  /\ client' = [client EXCEPT !.bodies[b].data = RowOf(Head(client.bodies[b].queue))]
  /\ http' = Idle
  /\ ServerUnchanged

\* The select of body b returns an error: the body goes on to the next job.
SelectFails(b) ==
  /\ b \in DOMAIN client.bodies
  /\ client.bodies[b].data = NoData
  /\ client' = [client EXCEPT !.bodies = NextJob(@, b)]
  /\ http' = Idle
  /\ ServerUnchanged

\* Body b stores the answer in videoJobs, shows the toast of a terminal
\* answer and goes on to the next job.
StoreAnswer(b) ==
  /\ b \in DOMAIN client.bodies
  /\ client.bodies[b].data # NoData
  /\ LET j == Head(client.bodies[b].queue)
         data == client.bodies[b].data
     IN client' =
          [videoJobs |-> MapPolled(client.videoJobs, j, data),
           stale |-> TRUE,
           closure |-> client.closure,
           fired |-> client.fired,
           bodies |-> NextJob(client.bodies, b),
           toasts |-> IF data.status \in {"completed", "failed"}
                        THEN Put(client.toasts, j, ToastCount(j) + 1)
                        ELSE client.toasts]
  /\ http' = Idle
  /\ ServerUnchanged

ClientStep ==
  \/ \E j \in 1 .. MaxAssets : JobCreated(j)
  \/ EffectRuns
  \/ \E b \in 1 .. MaxBodies : Tick(b)
  \/ \E b \in 1 .. MaxBodies : SelectAnswers(b)
  \/ \E b \in 1 .. MaxBodies : SelectFails(b)
  \/ \E b \in 1 .. MaxBodies : StoreAnswer(b)

\* The function serving the component alone, and the component.
NextClient ==
  \/ \E p \in ClientPrompts, seed \in Seeds : CreateAssetInserted(ClientUser, p, seed)
  \/ \E a \in 1 .. MaxAssets : CreateOk(a)
  \/ \E j \in 1 .. MaxAssets : TaskStep(j)
  \/ ClientStep

SpecClient == Init /\ [][NextClient]_vars

\* --------------------------------------------------- two-step PIN function
\* src/unnamed/part_000.  A request reads the caller's profile in an
\* awaited select (lines 53-58) and decides on the row it has read: a
\* verify checks the lock of that row against the clock as it is after the
\* await (lines 114-116), and every branch awaits hashPin before it
\* compares, updates the row and responds.  Requests of one user run
\* concurrently: other requests can read and write the row, and the clock
\* can advance, between the read, the lock check and the update of a
\* request.
PinActions == {"enable", "verify", "change", "disable", "status"}

\* Whether a row is locked at time t:
\* profile.pin_locked_until && new Date(profile.pin_locked_until) > new Date()
LockedAt(profile, t) ==
  profile.pin_locked_until # NoLock /\ profile.pin_locked_until[1] > t

\* What a request uses of the row it has read: the hash, the attempts and
\* the lock time.
ProfileRead(profile) ==
  [two_step_pin_hash |-> profile.two_step_pin_hash,
   pin_attempts |-> profile.pin_attempts,
   pin_locked_until |-> profile.pin_locked_until]

\* Where a request is after it has read the row: a verify with a
\* well-formed PIN is at its lock check, every other request awaits
\* hashPin.
AfterRead(action) == IF action = "verify" THEN "lock_check" ELSE "hash"

\* The status code of the response of call c from where it is.  A verify
\* responds at its lock check only when it finds the row it has read
\* locked, with 403; otherwise it goes on to hashPin.
PinCode(c) ==
  CASE c.action = "enable" -> IF IsSixDigits(c.pin) THEN 200 ELSE 400
    [] c.action = "verify" ->
         IF ~IsSixDigits(c.pin) THEN 400
         ELSE IF c.pc = "lock_check" THEN 403
         ELSE IF c.profile.two_step_pin_hash # hashPin(c.pin) THEN 401
         ELSE 200
    [] c.action = "change" ->
         IF ~IsSixDigits(c.pin) \/ ~IsSixDigits(c.newPin) THEN 400
         ELSE IF c.profile.two_step_pin_hash # hashPin(c.pin) THEN 401
         ELSE 200
    [] c.action = "disable" ->
         IF ~IsSixDigits(c.pin) THEN 400
         ELSE IF c.profile.two_step_pin_hash # hashPin(c.pin) THEN 401
         ELSE 200
    [] OTHER -> 200

\* newAttempts of a failed verify: (profile.pin_attempts || 0) + 1
newAttempts(c) == c.profile.pin_attempts + 1

\* Whether call c is a failed verify that sets the lock:
\* if (newAttempts >= 5) updateData.pin_locked_until = lockUntil
SetsLock(c) ==
  c.action = "verify" /\ PinCode(c) = 401 /\ newAttempts(c) >= LockAttempts

\* lockUntil = new Date(Date.now() + 15 * 60 * 1000), computed at time t
lockUntil(t) == <<t + LockMs>>

\* The row after the update of call c, applied to the row as it is then;
\* an update writes the columns it names and leaves the others.
PinUpdate(row, c) ==
  CASE c.action = "enable" /\ PinCode(c) = 200 ->
         [two_step_enabled |-> TRUE, two_step_pin_hash |-> hashPin(c.pin),
          pin_attempts |-> 0, pin_locked_until |-> NoLock]
    [] c.action = "verify" /\ PinCode(c) = 401 ->
         [row EXCEPT !.pin_attempts = newAttempts(c),
                     !.pin_locked_until =
                        IF newAttempts(c) >= LockAttempts THEN c.lockUntil ELSE @]
    [] c.action = "verify" /\ PinCode(c) = 200 ->
         [row EXCEPT !.pin_attempts = 0, !.pin_locked_until = NoLock]
    [] c.action = "change" /\ PinCode(c) = 200 ->
         [row EXCEPT !.two_step_pin_hash = hashPin(c.newPin)]
    [] c.action = "disable" /\ PinCode(c) = 200 ->
         [two_step_enabled |-> FALSE, two_step_pin_hash |-> NoHash,
          pin_attempts |-> 0, pin_locked_until |-> NoLock]
    [] OTHER -> row

\* Whether the update of call c writes pin_attempts: 0 and so starts a new
\* count of failed attempts.
ResetsAttempts(c) ==
  /\ PinCode(c) = 200
  /\ c.action \in {"enable", "verify", "disable"}

PinUnchanged ==
  UNCHANGED <<variant, media_assets, video_jobs, nextId, task, creates, http, client>>

\* The requests in flight, a bag: two requests can be equal.
Call(action, x, y) ==
  [action |-> action, pin |-> x, newPin |-> y,
   profile |-> ProfileRead(pin.profile), pc |-> AfterRead(action), lockUntil |-> NoLock]

\* A request whose branch has no update and no await after the profile is
\* read (status, or a malformed PIN): it is answered with PinCode at once.
PinAnswered(action, x, y) ==
  /\ action = "status" \/ PinCode(Call(action, x, y)) = 400
  /\ pin' = pin
  /\ PinUnchanged

\* A request arrives and reads the profile: the row as it is in the store
\* when the select is answered.
PinBegin(action, x, y) ==
  /\ action # "status" /\ PinCode(Call(action, x, y)) # 400
  /\ BagCardinality(pin.calls) < MaxCalls
  /\ pin.failed + pin.others < MaxGuesses
  /\ pin' = [pin EXCEPT !.calls = @ (+) SetToBag({Call(action, x, y)})]
  /\ PinUnchanged

\* The verify has the row and checks its lock against the clock as it is
\* now, which can be later than when the row was read:
\* lockTime > new Date().  A locked row is answered 403 at once, with no
\* update; otherwise the verify goes on to await hashPin.
PinLockChecked(c) ==
  /\ BagIn(c, pin.calls)
  /\ c.pc = "lock_check"
  /\ pin' = IF LockedAt(c.profile, pin.now)
              THEN [pin EXCEPT !.calls = @ (-) SetToBag({c})]
              ELSE [pin EXCEPT !.calls =
                      (@ (-) SetToBag({c})) (+) SetToBag({[c EXCEPT !.pc = "hash"]})]
  /\ PinUnchanged

\* A failed verify that sets the lock computes lockUntil from the clock
\* before it sends its update; the clock can advance and other requests can
\* run before the update is applied.  No other branch reads the clock
\* after the lock check.
PinLockComputed(c) ==
  /\ BagIn(c, pin.calls)
  /\ c.pc = "hash"
  /\ SetsLock(c)
  /\ c.lockUntil = NoLock
  /\ pin' = [pin EXCEPT !.calls =
               (@ (-) SetToBag({c})) (+) SetToBag({[c EXCEPT !.lockUntil = lockUntil(pin.now)]})]
  /\ PinUnchanged

\* The call is ready to send its update.
Computed(c) == SetsLock(c) => c.lockUntil # NoLock

\* The PIN function after call c has responded, its update having left the
\* row as profile; reset says that the response reports a successful
\* verify, enable or disable.
Responded(c, profile, reset) ==
  [profile |-> profile,
   now |-> pin.now,
   calls |-> pin.calls (-) SetToBag({c}),
   failed |-> IF reset THEN 0
              ELSE IF c.action = "verify" /\ PinCode(c) = 401 THEN pin.failed + 1
              ELSE pin.failed,
   others |-> IF reset THEN 0
              ELSE IF c.action # "verify" /\ PinCode(c) = 401 THEN pin.others + 1
              ELSE pin.others]

\* Whether the branch of call c sends an update.
HasUpdate(c) == PinCode(c) = 200 \/ (c.action = "verify" /\ PinCode(c) = 401)

\* The status code of the response to call c when the store answers its
\* update with an error: enable, change and disable read the error and
\* answer 500, verify does not read it.
PinFailedCode(c) == IF c.action = "verify" THEN PinCode(c) ELSE 500

\* The request updates the row, if its branch has an update, and responds
\* with PinCode(c).
PinFinish(c) ==
  /\ BagIn(c, pin.calls)
  /\ c.pc = "hash"
  /\ Computed(c)
  /\ pin' = Responded(c, PinUpdate(pin.profile, c), ResetsAttempts(c))
  /\ PinUnchanged

\* The store answers the update of call c with an error: the row stays
\* and the response has the code PinFailedCode(c).
PinUpdateFails(c) ==
  /\ BagIn(c, pin.calls)
  /\ c.pc = "hash"
  /\ Computed(c)
  /\ HasUpdate(c)
  /\ pin' = Responded(c, pin.profile, PinFailedCode(c) = 200)
  /\ PinUnchanged

\* Time passes: the lock time.
ClockAdvances ==
  /\ pin.now < MaxClock * LockMs
  /\ pin' = [pin EXCEPT !.now = @ + LockMs]
  /\ PinUnchanged

NextPin ==
  \/ \E x \in Pins : PinBegin("verify", x, <<>>)
  \/ \E x \in Pins : PinBegin("disable", x, <<>>)
  \/ \E x \in Pins : PinBegin("change", x, Pin2)
  \/ PinBegin("enable", Pin1, <<>>)
  \/ \E a \in PinActions \ {"status"} : PinAnswered(a, ShortPin, Pin2)
  \/ PinAnswered("status", <<>>, <<>>)
  \/ \E c \in BagToSet(pin.calls) : PinLockChecked(c)
  \/ \E c \in BagToSet(pin.calls) : PinLockComputed(c)
  \/ \E c \in BagToSet(pin.calls) : PinFinish(c)
  \/ ClockAdvances

\* The PIN function is a deployment of its own: the video function is idle.
InitPin == Init /\ variant = "V4"

SpecPin == InitPin /\ [][NextPin]_vars

\* The PIN function with a store whose updates can return an error.
NextPinFaults == NextPin \/ \E c \in BagToSet(pin.calls) : PinUpdateFails(c)

SpecPinFaults == InitPin /\ [][NextPinFaults]_vars

\* ------------------------------------------------------------------ claims
Terminal == {"completed", "failed"}

Jobs == DOMAIN video_jobs

\* Pending < Processing < {Completed, Failed}
Ordinal(status) ==
  CASE status = "pending" -> 0
    [] status = "processing" -> 1
    [] OTHER -> 2

\* The edges of the job state machine.
Edges ==
  {<<"pending", "processing">>, <<"processing", "completed">>,
   <<"processing", "failed">>, <<"pending", "failed">>}

\* C1: every change of a job's persisted status follows an edge of
\* Pending -> Processing -> {Completed, Failed} or Pending -> Failed.
C1_StatusFollowsEdges ==
  [][\A j \in Jobs :
       video_jobs'[j].status # video_jobs[j].status
         => <<video_jobs[j].status, video_jobs'[j].status>> \in Edges]_vars

\* C2: a job whose persisted status is Completed or Failed is never written
\* with another status.
C2_TerminalImmutable ==
  [][\A j \in Jobs :
       video_jobs[j].status \in Terminal
         => video_jobs'[j].status = video_jobs[j].status]_vars

\* C3: with status queries interleaved among the task's writes, no step
\* lowers the ordinal of a job's persisted status; a terminal job never
\* goes back to Processing.
C3_OrdinalForwardOnly ==
  [][\A j \in Jobs :
       /\ Ordinal(video_jobs'[j].status) >= Ordinal(video_jobs[j].status)
       /\ video_jobs[j].status \in Terminal => video_jobs'[j].status # "processing"]_vars

\* C3 witness: a status query answered with a terminal job while the job's
\* task still has a write to make.
C3_Witness ==
  /\ http.action = "status"
  /\ http.code = 200
  /\ http.job.status \in Terminal
  /\ task[http.job.id].pc # "done"

\* C4: no step lowers the persisted progress of a job.
C4_ProgressNonDecreasing ==
  [][\A j \in Jobs : video_jobs'[j].progress >= video_jobs[j].progress]_vars

\* C4 witness: a job that went through the initial write, an estimate and
\* the final write of 100.
C4_Witness ==
  \E j \in Jobs :
    /\ video_jobs[j].progress = 100
    /\ task[j].p.status = "succeeded"
    /\ task[j].pc = "done"

\* A prompt the create handler is to reject: missing, not a string, empty
\* or whitespace only.
InvalidPrompt(p) == p.type # "string" \/ Len(Trim(p.text)) = 0

\* C5: a create request with an invalid prompt is answered 400 and changes
\* no row and starts no task.
C5_InvalidPromptRejected ==
  [][(http' # Idle /\ http'.action = "create" /\ http'.user # NoUser
        /\ InvalidPrompt(http'.prompt))
       => (http'.code = 400 /\ UNCHANGED <<media_assets, video_jobs, task>>)]_vars

\* C6: when a create handler that has inserted its asset responds with an
\* error, the asset is deleted, or is not pending, or has a job.
C6_NoOrphanAfterFailedCreate ==
  [][\A a \in DOMAIN creates :
       (a \notin DOMAIN creates' /\ http'.code >= 400 /\ a \in DOMAIN media_assets')
         => \/ media_assets'[a].status # "pending"
            \/ \E j \in DOMAIN video_jobs' : video_jobs'[j].media_asset_id = a]_vars

\* C7: a job whose dispatch call threw ends Failed with an error message,
\* and its asset ends in a terminal status, whatever the store answers to
\* the task's writes.
C7_DispatchFailureEndsFailed ==
  \A j \in Jobs :
    (task[j].dispatch = "threw" /\ task[j].pc = "done")
      => /\ video_jobs[j].status = "failed"
         /\ video_jobs[j].error_message # NULL
         /\ media_assets[AssetOf(j)].status \in Terminal

\* The URL a succeeded answer carries: the output, or its first element.
HasUrl(output) == Len(output.items) > 0
UrlOf(output) == output.items[1]

\* C8: a job whose last poll answered succeeded ends Completed with
\* progress 100 and completed_at set, and its asset's file_url is the URL
\* of the answer, whatever the store answers to the task's writes.
C8_SucceededEndsCompleted ==
  \A j \in Jobs :
    (task[j].p.status = "succeeded" /\ task[j].pc = "done")
      => /\ video_jobs[j].status = "completed"
         /\ video_jobs[j].progress = 100
         /\ video_jobs[j].completed_at # NULL
         /\ HasUrl(task[j].p.output)
              => media_assets[AssetOf(j)].file_url = UrlOf(task[j].p.output)

\* C9: the timeout writes are reached once timeoutMs has elapsed and not
\* before; a dispatched job whose provider never answered a terminal
\* status (its polls answered processing, or threw) ends Failed with
\* "Provider timed out"; and no provider-reported failure stores that
\* message.
C9_TimeoutIsDistinctFailure ==
  \A j \in Jobs :
    /\ task[j].pc \in {"timeout_job", "timeout_asset"} => task[j].elapsed >= timeoutMs
    /\ task[j].pc = "poll" => task[j].elapsed < timeoutMs
    /\ (/\ task[j].pc = "done"
        /\ task[j].dispatch = "ok"
        /\ task[j].p.status \notin {"succeeded", "failed", "canceled"})
         => /\ video_jobs[j].status = "failed"
            /\ video_jobs[j].error_message = "Provider timed out"
    /\ (task[j].pc = "done" /\ task[j].p.status \in {"failed", "canceled"})
         => /\ video_jobs[j].status = "failed"
            /\ video_jobs[j].error_message # "Provider timed out"

\* C10: an exception of a single poll call does not move the job to Failed.
C10_PollErrorDoesNotFail ==
  \A j \in Jobs :
    ~(/\ task[j].p.status = "threw"
      /\ video_jobs[j].status = "failed"
      /\ video_jobs[j].error_message # "Provider timed out")

\* C11: an exception thrown by a step of the task never escapes the task,
\* and a task that ended after catching one has issued an update that sets
\* the job to failed.
C11_CrashIsCaughtAndMarked ==
  \A j \in DOMAIN task :
    /\ ~task[j].escaped
    /\ (task[j].pc = "done" /\ task[j].err # NoError) => task[j].failWrite

\* C12: a job whose persisted status is terminal has a parent asset whose
\* persisted status is terminal.
C12_JobAndAssetInSync ==
  \A j \in Jobs :
    video_jobs[j].status \in Terminal => media_assets[AssetOf(j)].status \in Terminal

\* The owner of a job's parent asset.
Owner(j) == media_assets[AssetOf(j)].user_id

\* C13: once the status handler answers its owner with a terminal job, no
\* later step changes the answer it gives for that job.  (A status query is
\* possible between any two steps of the task, so an answer that changes is
\* an answer two queries can observe.)
C13_TerminalReadsIdentical ==
  [][\A j \in Jobs :
       (/\ StatusResponse(variant, Owner(j), j, FALSE)[1] = 200
        /\ StatusResponse(variant, Owner(j), j, FALSE)[3].status \in Terminal)
         => StatusResponse(variant, Owner(j), j, FALSE)' = StatusResponse(variant, Owner(j), j, FALSE)]_vars

\* C14: a status query for a job that does not exist is answered 404, and
\* one for a job of another user is answered 403 or 404; neither carries
\* job fields.
C14_NoForeignJobData ==
  (http.action = "status" /\ http.user # NoUser /\ http.jobId # 0)
    => /\ http.jobId \notin Jobs => (http.code = 404 /\ http.job = NoView)
       /\ (http.jobId \in Jobs /\ Owner(http.jobId) # http.user)
            => (http.code \in {403, 404} /\ http.job = NoView)

\* C15: when create answers 200 the job and its asset are stored in status
\* pending, the task has made no provider call, and the response can be
\* delivered without any step of the task.
C15_CreateRespondsAtOnce ==
  (http.action = "create" /\ http.code = 200)
    => /\ http.job.id \in Jobs
       /\ video_jobs[http.job.id].status = "pending"
       /\ AssetOf(http.job.id) \in DOMAIN media_assets
       /\ media_assets[AssetOf(http.job.id)].status = "pending"
       /\ task[http.job.id].pc = "set_processing"
       /\ task[http.job.id].dispatch = "none"
       /\ task[http.job.id].p = NoPoll
       /\ ENABLED Deliver

\* C15 witness: the provider revision has answered a create with 200.
C15_Witness ==
  /\ variant = "V3"
  /\ http.action = "create"
  /\ http.code = 200

\* C16: the task is never about to dispatch a job it has dispatched before,
\* and after a dispatch that threw it makes no provider call for the job.
C16_DispatchAtMostOnce ==
  \A j \in DOMAIN task :
    /\ task[j].dispatch # "none" => task[j].pc # "dispatch"
    /\ task[j].dispatch = "threw"
         => /\ task[j].pc \notin {"dispatch", "store_prediction", "poll", "rough_progress"}
            /\ task[j].p = NoPoll

\* C16 witness: the task between its two failure updates after a dispatch
\* that threw.
C16_Witness ==
  \E j \in DOMAIN task :
    /\ task[j].dispatch = "threw"
    /\ task[j].pc = "dispatch_failed_asset"

\* C17: a job that has an error_message has status failed.
C17_ErrorMessageOnlyWhenFailed ==
  \A j \in Jobs :
    video_jobs[j].error_message # NULL => video_jobs[j].status = "failed"

\* C17 witness: a job failed with the provider's error as its message.
C17_Witness ==
  \E j \in Jobs :
    /\ video_jobs[j].status = "failed"
    /\ video_jobs[j].error_message = "NSFW"

\* C18: started_at is written by the step from pending to processing and by
\* no other, completed_at by the step to a terminal status and by no other,
\* and each of these steps writes its timestamp.
C18_TimestampsOnce ==
  [][\A j \in Jobs :
       LET old == video_jobs[j]
           new == video_jobs'[j]
       IN /\ new.started_at # old.started_at
               => (old.started_at = NULL /\ old.status = "pending"
                     /\ new.status = "processing")
          /\ new.completed_at # old.completed_at
               => (old.completed_at = NULL /\ old.status \notin Terminal
                     /\ new.status \in Terminal)
          /\ (old.status = "pending" /\ new.status = "processing")
               => new.started_at # NULL
          /\ (old.status \notin Terminal /\ new.status \in Terminal)
               => new.completed_at # NULL]_vars

\* C19: no step changes the seed or the payload snapshot stored in an
\* asset's metadata at creation.
C19_PayloadAndSeedImmutable ==
  [][\A a \in DOMAIN media_assets :
       a \in DOMAIN media_assets'
         => media_assets'[a].metadata = media_assets[a].metadata]_vars

\* C20: a job's progress is in 0..100, and is 100 only if the job's status
\* is completed.
C20_ProgressBelow100UntilCompleted ==
  \A j \in Jobs :
    /\ video_jobs[j].progress \in 0 .. 100
    /\ video_jobs[j].progress = 100 => video_jobs[j].status = "completed"

\* C21: when the task is about to call the provider, and ever after the
\* call, the job's persisted status is past pending, started_at is stamped
\* and progress is above zero.
C21_ProcessingBeforeDispatch ==
  \A j \in DOMAIN task :
    (task[j].pc = "dispatch" \/ task[j].dispatch # "none")
      => /\ video_jobs[j].status # "pending"
         /\ video_jobs[j].started_at # NULL
         /\ video_jobs[j].progress > 0

\* EdgeRuntime.waitUntil keeps a started task running: each of its awaited
\* calls returns or throws.
SpecLive == Spec /\ \A j \in 1 .. MaxAssets : WF_vars(TaskStep(j))

\* Every task that was started ends (the half of C22 that holds).
TaskEnds ==
  \A j \in 1 .. MaxAssets : [](j \in DOMAIN task => <>(j \in DOMAIN task /\ task[j].pc = "done"))

\* C22: a task that has ended leaves its job in a terminal status.
C22_EndedTaskLeavesTerminalJob ==
  \A j \in DOMAIN task :
    task[j].pc = "done" => video_jobs[j].status \in Terminal

\* The text the job is to carry after a transport error.
GenericTransportMessage == "provider unreachable"

\* C23: a job failed because a provider call threw carries the generic
\* transport message, not the message of the exception.
C23_TransportErrorIsGeneric ==
  \A j \in DOMAIN task :
    (/\ video_jobs[j].status = "failed"
     /\ task[j].dispatch = "threw" \/ task[j].p.status = "threw")
      => /\ video_jobs[j].error_message = GenericTransportMessage
         /\ task[j].err.isError => video_jobs[j].error_message # task[j].err.message

\* C26: a step that answers a status request changes no row of video_jobs
\* or media_assets and starts or moves no task.
C26_StatusIsReadOnly ==
  [][(http' # Idle /\ http'.action = "status")
       => UNCHANGED <<video_jobs, media_assets, task, nextId>>]_vars

\* C26 witness: a status request for another user's job answered 404 while
\* the job's task is running.
C26_Witness ==
  /\ http.action = "status"
  /\ http.code = 404
  /\ http.jobId \in Jobs
  /\ task[http.jobId].pc # "done"

\* C27: every job references an asset row that exists and has type video,
\* tasks exist for stored jobs only, and the asset of a job just created
\* is owned by the caller of create.
C27_JobReferencesOwnedAsset ==
  /\ \A j \in Jobs :
       /\ AssetOf(j) \in DOMAIN media_assets
       /\ media_assets[AssetOf(j)].type = "video"
  /\ DOMAIN task = Jobs
  /\ (http.action = "create" /\ http.code = 200) => Owner(http.job.id) = http.user

\* C27 witness: the second user's create has stored a job.
C27_Witness ==
  /\ http.action = "create"
  /\ http.code = 200
  /\ http.user = "u2"
  /\ http.job.id \in Jobs

\* The local job of id j in the component's list.
LocalJobs == {client.videoJobs[i] : i \in DOMAIN client.videoJobs}

\* C24: a job the component holds as completed, with no poll body left in
\* flight, has a videoUrl whenever the stored asset has one.
C24_LocalCompletedHasVideo ==
  \A job \in LocalJobs :
    (/\ job.status = "completed"
     /\ client.bodies = <<>>
     /\ media_assets[AssetOf(job.id)].file_url # NULL)
      => job.videoUrl \notin {NULL, Undefined}

\* C25: the component shows at most one terminal toast for a job, and no
\* body sends a select for a job the component holds as terminal.
C25_OneToastNoPollAfterTerminal ==
  [][/\ \A j \in DOMAIN client'.toasts : client'.toasts[j] <= 1
     /\ \A b \in DOMAIN client'.bodies :
          (/\ client'.bodies[b].data = NoData
           /\ b \in DOMAIN client.bodies
                => client.bodies[b].queue # client'.bodies[b].queue)
            => \A job \in LocalJobs' :
                 job.id = Head(client'.bodies[b].queue) => job.status \notin Terminal]_vars

\* The requests of the PIN function that respond in this step.
Finishing == {c \in BagToSet(pin.calls) : pin'.calls = pin.calls (-) SetToBag({c})}

\* C28: the verify that is the fifth failed one since the attempts were
\* reset (or a later one) leaves the profile with the lock it computed,
\* and a verify that responds while the stored pin_locked_until is in the
\* future is answered 403 and leaves the profile as it is.
C28_LockedAfterFiveFailures ==
  [][\A c \in Finishing :
       c.action = "verify"
         => /\ (PinCode(c) = 401 /\ pin'.failed >= LockAttempts)
                 => /\ c.lockUntil # NoLock
                    /\ pin'.profile.pin_locked_until = c.lockUntil
            /\ LockedAt(pin.profile, pin.now)
                 => (PinCode(c) = 403 /\ pin'.profile = pin.profile)]_vars

\* C29: more than five PIN comparisons answered "wrong" since the last
\* reset mean the lock has been set, and a request that responds while the
\* stored pin_locked_until is in the future is answered 403 whether its
\* PIN matches or not.
C29_GuessesAreLimited ==
  [][/\ pin'.failed + pin'.others > LockAttempts
          => pin'.profile.pin_locked_until # NoLock
     /\ \A c \in Finishing :
          (c.action \in {"verify", "change", "disable"} /\ LockedAt(pin.profile, pin.now))
            => PinCode(c) = 403]_vars

\* C30: when no request is in flight, pin_attempts is the number of failed
\* verifies since the attempts were last reset.
C30_NoLostIncrement ==
  pin.calls = EmptyBag => pin.profile.pin_attempts = pin.failed

====
